---- MODULE Spec2Model ----
(***************************************************************************)
(* NoctiVpn: the purchase path of telegram_bot/index.js over the store     *)
(* schema of init.sql.  Each purchase is one invocation of the             *)
(* bot.action(/^buy_(\d+)$/) handler behind the createUser middleware;     *)
(* every await of the handler is one step, so handlers of concurrent       *)
(* purchases interleave at their queries.  The store is PostgreSQL at its  *)
(* default READ COMMITTED level: a transaction's writes are visible to the *)
(* others at COMMIT only, an UPDATE of a row waits for the row lock and    *)
(* evaluates its WHERE on the committed row.                               *)
(* The Reconciler that loads the credentials on the nodes is not part of   *)
(* that code; its full sweep is modelled as the specification describes    *)
(* it and runs beside the purchases in SyncSpec.                           *)
(***************************************************************************)
EXTENDS Integers, FiniteSets

\* ---------------------------------------------------------------- bounds
NumHandlers == 2           \* invocations of the buy handler in flight at once
NumUsers == 2              \* rows of users
NumServers == 2            \* rows of servers
NumUuids == 2              \* values crypto.randomUUID() is drawn from
TickDays == 45             \* days the clock advances by in one step
MaxNow == 45               \* the clock stops advancing here
NumSyncHandlers == 1       \* invocations in flight while the Reconciler runs

Handlers == 1..NumHandlers
Users == 1..NumUsers
Servers == 1..NumServers
Uuids == 1..NumUuids
SyncHandlers == 1..NumSyncHandlers

\* servers.max_users values the rows are seeded with: a server of one slot,
\* and one large enough for two loads to round to the same percentage
MaxUsersChoices == {1, 2001}
\* the sets of servers whose is_enabled is false
DisabledChoices == {{}, {1}}
\* users.balance values the purchases start from, in RUB
InitBalances == {29, 80}

\* ------------------------------------------------------ program constants
durationDays == 30

\* the plans the purchases pick among ('Basic' and 'Standard'), and the
\* prices init.sql seeds the four tariffs with, in RUB
TariffIds == {1, 2}
Price(t) == CASE t = 1 -> 29 [] t = 2 -> 79 [] t = 3 -> 279 [] OTHER -> 399

NoServer == 0
NoRow == [xray_uuid |-> 0]
NoTx == [open |-> FALSE, start |-> 0, debit |-> 0, row |-> NoRow]
NoCtx == [user |-> 0, balance |-> 0]

VARIABLES
    balance,        \* users.balance, committed
    balance0,       \* users.balance before the first purchase (history)
    subscriptions,  \* committed rows of subscriptions
    max_users,      \* servers.max_users
    is_enabled,     \* servers.is_enabled
    now,            \* the store's clock, in days
    pc,             \* where each handler invocation stands
    ctx,            \* ctx.user as the middleware read it
    tariffId,       \* ctx.match[1]
    server,         \* the row findBestServer returned
    snap,           \* current_users per server as findBestServer just read them
    tx,             \* the open transaction of createSubscription
    reply,          \* what the handler answered
    node,           \* credential ids each node has loaded (its inbound's clients)
    sweep           \* the Reconciler's full sweep of each node

vars == <<balance, balance0, subscriptions, max_users, is_enabled, now,
          pc, ctx, tariffId, server, snap, tx, reply, node, sweep>>

NoSnap == [s \in Servers |-> 0]

\* no sweep of the node has run yet
NoSweep == [pc |-> "idle", desired |-> {}, toAdd |-> {}, toRemove |-> {}, failed |-> {}]

\* ------------------------------------------------------------ the store

\* view_server_load.current_users over a set of rows
current_users(rows, s) ==
    Cardinality({r \in rows : r.server_id = s /\ r.status = "active"})

\* slots_available counting one slot too many
slots_available_OffByOne(c, s) == max_users[s] - c + 1

\* view_server_load.slots_available for a server with c active rows
slots_available(c, s) == max_users[s] - c

\* view_server_load.load_percentage, in tenths of a percent:
\* ROUND(c / max_users * 100, 1), numeric ROUND rounding half away from zero
load_percentage(c, s) == (2000 * c + max_users[s]) \div (2 * max_users[s])

\* the rows "WHERE slots_available > 0 ORDER BY load_percentage ASC LIMIT 1"
\* may return over the counts cnt: ORDER BY leaves equal keys in any order
findBestServer(cnt) ==
    LET eligible == {s \in Servers : slots_available(cnt[s], s) > 0}
    IN  {s \in eligible :
            \A t \in eligible :
                load_percentage(cnt[s], s) <= load_percentage(cnt[t], t)}

\* the counts a query over view_server_load reads now
view_server_load == [s \in Servers |-> current_users(subscriptions, s)]

\* the rows getActiveSub(userId) may return
getActiveSub(u) ==
    {r \in subscriptions :
        r.user_id = u /\ r.status = "active" /\ r.expire_date > now}

\* another open transaction holds the lock of users row u
RowLocked(h, u) ==
    \E q \in Handlers \ {h} : tx[q].open /\ tx[q].debit > 0 /\ ctx[q].user = u

\* the UPDATE without its "AND balance >= $1"
DebitApplies_Unguarded(h) == TRUE

\* "UPDATE users ... WHERE id = $2 AND balance >= $1" finds the row
DebitApplies(h) == balance[ctx[h].user] >= Price(tariffId[h])

\* the table without CONSTRAINT uq_xray_uuid
uq_xray_uuid_Dropped(x) == TRUE

\* CONSTRAINT uq_xray_uuid UNIQUE (xray_uuid) accepts x
uq_xray_uuid(x) == \A r \in subscriptions : r.xray_uuid # x

\* another open transaction has inserted x and not yet ended
UuidPending(h, x) ==
    \E q \in Handlers \ {h} :
        tx[q].open /\ tx[q].row # NoRow /\ tx[q].row.xray_uuid = x

\* ------------------------------------------------------------- handlers

Init ==
    /\ balance \in [Users -> InitBalances]
    /\ balance0 = balance
    /\ subscriptions = {}
    /\ max_users \in [Servers -> MaxUsersChoices]
    /\ \E d \in DisabledChoices : is_enabled = [s \in Servers |-> s \notin d]
    /\ now = 0
    /\ pc = [h \in Handlers |-> "idle"]
    /\ ctx = [h \in Handlers |-> NoCtx]
    /\ tariffId = [h \in Handlers |-> 0]
    /\ server = [h \in Handlers |-> NoServer]
    /\ snap = [h \in Handlers |-> NoSnap]
    /\ tx = [h \in Handlers |-> NoTx]
    /\ reply = [h \in Handlers |-> "none"]
    /\ node = [s \in Servers |-> {}]
    /\ sweep = [s \in Servers |-> NoSweep]

\* the handler ends with answer r; its locals are dropped
Finish(h, r) ==
    /\ pc' = [pc EXCEPT ![h] = "idle"]
    /\ reply' = [reply EXCEPT ![h] = r]
    /\ ctx' = [ctx EXCEPT ![h] = NoCtx]
    /\ tariffId' = [tariffId EXCEPT ![h] = 0]
    /\ server' = [server EXCEPT ![h] = NoServer]
    /\ snap' = [snap EXCEPT ![h] = NoSnap]
    /\ tx' = [tx EXCEPT ![h] = NoTx]

\* bot.use: ctx.user = await db.createUser(...), an upsert of the users row
\* (it waits for the row lock); the handler then reads ctx.match[1].
\* Invocations are interchangeable: a new one takes the lowest free slot,
\* and its answer replaces the one the slot held.
Middleware(h, u, t) ==
    /\ pc[h] = "idle"
    /\ \A q \in Handlers : q < h => pc[q] # "idle"
    /\ ~RowLocked(h, u)
    /\ pc' = [pc EXCEPT ![h] = "getTariffs"]
    /\ ctx' = [ctx EXCEPT ![h] = [user |-> u, balance |-> balance[u]]]
    /\ tariffId' = [tariffId EXCEPT ![h] = t]
    /\ reply' = [reply EXCEPT ![h] = "none"]
    /\ UNCHANGED <<node, sweep, balance, balance0, subscriptions, max_users, is_enabled, now,
                   server, snap, tx>>

\* getTariffs, then the balance pre-check on ctx.user.balance, which is
\* not read again
BuyPrecheck(h) ==
    /\ pc[h] = "getTariffs"
    /\ IF ctx[h].balance < Price(tariffId[h])
         THEN Finish(h, "insufficient")
         ELSE /\ pc' = [pc EXCEPT ![h] = "findBestServer"]
              /\ ctx' = [ctx EXCEPT ![h].balance = 0]
              /\ UNCHANGED <<tariffId, server, snap, tx, reply>>
    /\ UNCHANGED <<node, sweep, balance, balance0, subscriptions, max_users, is_enabled, now>>

\* const server = await db.findBestServer(): a row came back
BuySelect(h, s) ==
    /\ pc[h] = "findBestServer"
    /\ s \in findBestServer(view_server_load)
    /\ server' = [server EXCEPT ![h] = s]
    /\ snap' = [snap EXCEPT ![h] = view_server_load]
    /\ pc' = [pc EXCEPT ![h] = "begin"]
    /\ UNCHANGED <<node, sweep, balance, balance0, subscriptions, max_users, is_enabled, now,
                   ctx, tariffId, tx, reply>>

\* the handler without its "if (!server) return": it goes on to
\* createSubscription with the least loaded server
BuyNoServer_FallThrough(h) ==
    /\ pc[h] = "findBestServer"
    /\ findBestServer(view_server_load) = {}
    /\ \E s \in Servers :
        /\ \A t \in Servers :
              load_percentage(view_server_load[s], s) <= load_percentage(view_server_load[t], t)
        /\ server' = [server EXCEPT ![h] = s]
    /\ snap' = [snap EXCEPT ![h] = view_server_load]
    /\ pc' = [pc EXCEPT ![h] = "begin"]
    /\ UNCHANGED <<node, sweep, balance, balance0, subscriptions, max_users, is_enabled, now,
                   ctx, tariffId, tx, reply>>

\* if (!server) return ctx.reply("No servers available ...")
BuyNoServer(h) ==
    /\ pc[h] = "findBestServer"
    /\ findBestServer(view_server_load) = {}
    /\ Finish(h, "noservers")
    /\ UNCHANGED <<node, sweep, balance, balance0, subscriptions, max_users, is_enabled, now>>

\* createSubscription: BEGIN (now() is the transaction's start) and the
\* SELECT of the price
TxBegin(h) ==
    /\ pc[h] = "begin"
    /\ tx' = [tx EXCEPT ![h] =
                [open |-> TRUE, start |-> now, debit |-> 0, row |-> NoRow]]
    /\ pc' = [pc EXCEPT ![h] = "debit"]
    /\ snap' = [snap EXCEPT ![h] = NoSnap]
    /\ UNCHANGED <<node, sweep, balance, balance0, subscriptions, max_users, is_enabled, now,
                   ctx, tariffId, server, reply>>

\* a ROLLBACK that leaves the debit in place (the UPDATE run outside the
\* transaction, on the pool)
Rollback_KeepsDebit(h, e) ==
    /\ Finish(h, e)
    /\ balance' = [balance EXCEPT ![ctx[h].user] = @ - tx[h].debit]
    /\ UNCHANGED <<node, sweep, balance0, subscriptions, max_users, is_enabled, now>>

\* ROLLBACK in the catch; the handler's catch logs the rethrown error e and
\* answers "Error processing purchase.": the transaction's writes are dropped
Rollback(h, e) ==
    /\ Finish(h, e)
    /\ UNCHANGED <<node, sweep, balance, balance0, subscriptions, max_users, is_enabled, now>>

\* the UPDATE taking the price of the 'Basic' plan whatever plan was bought
TxDebit_FlatPrice(h) ==
    /\ pc[h] = "debit"
    /\ ~RowLocked(h, ctx[h].user)
    /\ IF DebitApplies(h)
         THEN /\ tx' = [tx EXCEPT ![h].debit = Price(1)]
              /\ pc' = [pc EXCEPT ![h] = "insert"]
              /\ UNCHANGED <<node, sweep, balance, balance0, subscriptions, max_users, is_enabled,
                             now, ctx, tariffId, server, snap, reply>>
         ELSE Rollback(h, "error: Insufficient balance")

\* 2. Deduct Balance: the conditional UPDATE, holding the row lock when it
\* applies; rowCount 0 throws "Insufficient balance"
TxDebit(h) ==
    /\ pc[h] = "debit"
    /\ ~RowLocked(h, ctx[h].user)
    /\ IF DebitApplies(h)
         THEN /\ tx' = [tx EXCEPT ![h].debit = Price(tariffId[h])]
              /\ pc' = [pc EXCEPT ![h] = "insert"]
              /\ UNCHANGED <<node, sweep, balance, balance0, subscriptions, max_users, is_enabled,
                             now, ctx, tariffId, server, snap, reply>>
         ELSE Rollback(h, "error: Insufficient balance")

\* 3. Create Subscription: xrayUuid = crypto.randomUUID() and the INSERT,
\* which waits for an uncommitted row of the same xray_uuid and fails on a
\* committed one
TxInsert(h, x) ==
    /\ pc[h] = "insert"
    /\ ~UuidPending(h, x)
    /\ IF uq_xray_uuid(x)
         THEN /\ tx' = [tx EXCEPT ![h].row =
                          [user_id |-> ctx[h].user, server_id |-> server[h],
                           tariff_id |-> tariffId[h], xray_uuid |-> x,
                           expire_date |-> tx[h].start + durationDays,
                           status |-> "active"]]
              /\ pc' = [pc EXCEPT ![h] = "commit"]
              /\ UNCHANGED <<node, sweep, balance, balance0, subscriptions, max_users, is_enabled,
                             now, ctx, tariffId, server, snap, reply>>
         ELSE Rollback(h, "error: uq_xray_uuid")

\* COMMIT: the debit and the row become visible together (rows are told
\* apart by xray_uuid, which uq_xray_uuid keeps unique)
TxCommit(h) ==
    /\ pc[h] = "commit"
    /\ balance' = [balance EXCEPT ![ctx[h].user] = @ - tx[h].debit]
    /\ subscriptions' = subscriptions \cup {tx[h].row}
    /\ Finish(h, "success")
    /\ UNCHANGED <<node, sweep, balance0, max_users, is_enabled, now>>

\* time passes
Tick ==
    /\ now + TickDays <= MaxNow
    /\ now' = now + TickDays
    /\ UNCHANGED <<node, sweep, balance, balance0, subscriptions, max_users, is_enabled,
                   pc, ctx, tariffId, server, snap, tx, reply>>

Next ==
    \/ \E h \in Handlers, u \in Users, t \in TariffIds : Middleware(h, u, t)
    \/ \E h \in Handlers : BuyPrecheck(h)
    \/ \E h \in Handlers, s \in Servers : BuySelect(h, s)
    \/ \E h \in Handlers : BuyNoServer(h)
    \/ \E h \in Handlers : TxBegin(h)
    \/ \E h \in Handlers : TxDebit(h)
    \/ \E h \in Handlers, x \in Uuids : TxInsert(h, x)
    \/ \E h \in Handlers : TxCommit(h)
    \/ Tick

Spec == Init /\ [][Next]_vars

\* the steps of invocation h once the middleware has run
Step(h) ==
    \/ BuyPrecheck(h)
    \/ \E s \in Servers : BuySelect(h, s)
    \/ BuyNoServer(h)
    \/ TxBegin(h)
    \/ TxDebit(h)
    \/ \E x \in Uuids : TxInsert(h, x)
    \/ TxCommit(h)

\* the event loop and the store run every invocation on to its answer, and
\* time passes; whether a new purchase arrives is up to the users
FairSpec ==
    Spec /\ WF_vars(Tick) /\ \A h \in Handlers : WF_vars(Step(h))

\* ------------------------------------------------------- the Reconciler
\* The full sweep of one node, as the specification describes it: fetch the
\* Desired Entitlement Set from the store and the Actual Entitlement Set from
\* the node, add what is missing, then remove what is stale, one RPC per
\* credential; an RPC that fails after its retries is reported, and the
\* sweep goes on.  At most one sweep runs per node; nodes are swept
\* independently of each other and of the purchases.

\* credentials a node may be started with: none, or one left in its inbound
StaleChoices == {{}, {1}}

botVars == <<balance, balance0, subscriptions, max_users, is_enabled, now,
             pc, ctx, tariffId, server, snap, tx, reply>>

\* Desired Entitlement Set of node s: credentials of its 'active' rows
Desired(s) ==
    {r.xray_uuid : r \in {q \in subscriptions :
                             q.server_id = s /\ q.status = "active"}}

\* a sweep that adds nothing
toAdd_None(d, a) == {}

\* toAdd = Desired \ Actual
toAdd(d, a) == d \ a

\* toRemove = Actual \ Desired
toRemove(d, a) == a \ d

\* the sweep fetches both sets and computes the difference
SweepFetch(s) ==
    /\ sweep[s].pc # "apply"
    /\ sweep' = [sweep EXCEPT ![s] =
                    [pc |-> "apply", desired |-> Desired(s),
                     toAdd |-> toAdd(Desired(s), node[s]),
                     toRemove |-> toRemove(Desired(s), node[s]),
                     failed |-> {}]]
    /\ UNCHANGED <<node, botVars>>

\* one AddUser RPC; ok is its outcome after the retries
SweepAdd(s, x, ok) ==
    /\ sweep[s].pc = "apply"
    /\ x \in sweep[s].toAdd
    /\ node' = IF ok THEN [node EXCEPT ![s] = @ \cup {x}] ELSE node
    /\ sweep' = [sweep EXCEPT ![s].toAdd = @ \ {x},
                              ![s].failed = IF ok THEN @ ELSE @ \cup {x}]
    /\ UNCHANGED botVars

\* one RemoveUser RPC; the removals come after the additions
SweepRemove(s, x, ok) ==
    /\ sweep[s].pc = "apply"
    /\ sweep[s].toAdd = {}
    /\ x \in sweep[s].toRemove
    /\ node' = IF ok THEN [node EXCEPT ![s] = @ \ {x}] ELSE node
    /\ sweep' = [sweep EXCEPT ![s].toRemove = @ \ {x},
                              ![s].failed = IF ok THEN @ ELSE @ \cup {x}]
    /\ UNCHANGED botVars

\* the sweep completes and reports the credentials it failed on
SweepEnd(s) ==
    /\ sweep[s].pc = "apply"
    /\ sweep[s].toAdd = {}
    /\ sweep[s].toRemove = {}
    /\ sweep' = [sweep EXCEPT ![s].pc = "done"]
    /\ UNCHANGED <<node, botVars>>

\* the purchases with the Reconciler beside them: one user who can pay for
\* two subscriptions and the others for one, servers of one slot, all
\* enabled, and the clock at rest; the sweep reads none of these
SyncInit ==
    /\ balance0 = [u \in Users |-> IF u = 1 THEN 80 ELSE 29]
    /\ balance = balance0
    /\ subscriptions = {}
    /\ max_users = [s \in Servers |-> 1]
    /\ is_enabled = [s \in Servers |-> TRUE]
    /\ now = 0
    /\ pc = [h \in Handlers |-> "idle"]
    /\ ctx = [h \in Handlers |-> NoCtx]
    /\ tariffId = [h \in Handlers |-> 0]
    /\ server = [h \in Handlers |-> NoServer]
    /\ snap = [h \in Handlers |-> NoSnap]
    /\ tx = [h \in Handlers |-> NoTx]
    /\ reply = [h \in Handlers |-> "none"]
    /\ \E c \in StaleChoices : node = [s \in Servers |-> c]
    /\ sweep = [s \in Servers |-> NoSweep]

SyncNext ==
    \/ \E h \in SyncHandlers, u \in Users, t \in TariffIds : Middleware(h, u, t)
    \/ \E h \in SyncHandlers : BuyPrecheck(h)
    \/ \E h \in SyncHandlers, s \in Servers : BuySelect(h, s)
    \/ \E h \in SyncHandlers : BuyNoServer(h)
    \/ \E h \in SyncHandlers : TxBegin(h)
    \/ \E h \in SyncHandlers : TxDebit(h)
    \/ \E h \in SyncHandlers, x \in Uuids : TxInsert(h, x)
    \/ \E h \in SyncHandlers : TxCommit(h)
    \/ \E s \in Servers : SweepFetch(s)
    \/ \E s \in Servers, x \in Uuids, ok \in BOOLEAN : SweepAdd(s, x, ok)
    \/ \E s \in Servers, x \in Uuids, ok \in BOOLEAN : SweepRemove(s, x, ok)
    \/ \E s \in Servers : SweepEnd(s)

SyncSpec == SyncInit /\ [][SyncNext]_vars

\* the steps of the sweep of node s
SweepStep(s) ==
    \/ SweepFetch(s)
    \/ \E x \in Uuids, ok \in BOOLEAN : SweepAdd(s, x, ok)
    \/ \E x \in Uuids, ok \in BOOLEAN : SweepRemove(s, x, ok)
    \/ SweepEnd(s)

\* sweeps run periodically and each runs to its end; the failures of the
\* node RPC are transient: an addition tried again and again gets through
SyncFairSpec ==
    /\ SyncSpec
    /\ \A s \in Servers : WF_vars(SweepStep(s))
    /\ \A s \in Servers, x \in Uuids : SF_vars(SweepAdd(s, x, TRUE))


\* ---------------------------------------------------------------- claims

Selected(h) == pc[h] = "begin"

Eligible(cnt) == {s \in Servers : cnt[s] < max_users[s]}

Errors == {"error: Insufficient balance", "error: uq_xray_uuid"}

\* C1: for every server, the number of 'active' subscriptions assigned to
\* it is at most its max_users, under any interleaving of purchases.
CapacityRespected ==
    \A s \in Servers : current_users(subscriptions, s) <= max_users[s]

\* C2: a balance is never negative, committed or inside a transaction, and
\* a user whose balance was B at first holds at most floor(B / P)
\* subscriptions of a plan of price P, whatever the pre-check read.
BalanceNeverOverdrawn ==
    /\ \A u \in Users : balance[u] >= 0
    /\ \A h \in Handlers : tx[h].debit > 0 => balance[ctx[h].user] - tx[h].debit >= 0
    /\ \A u \in Users, t \in TariffIds :
          Cardinality({r \in subscriptions : r.user_id = u /\ r.tariff_id = t}) * Price(t)
              <= balance0[u]

\* a purchase passed the pre-check on a balance another purchase has spent
\* since, and the debit refused it
DebitRefusedAfterPrecheck ==
    /\ \E h \in Handlers : reply[h] = "error: Insufficient balance"
    /\ \E u \in Users, t \in TariffIds :
          balance[u] < balance0[u] /\ balance[u] < Price(t)

\* C3: a purchase that fails (the debit finds too little, or the insert of
\* the row fails) leaves balances and subscriptions as they were; a step
\* changes a user's balance exactly when it adds one row of that user.
FailedPurchaseChangesNothing ==
    [][ /\ \A h \in Handlers :
              (pc[h] # "idle" /\ pc'[h] = "idle" /\ reply'[h] \in Errors)
                  => balance' = balance /\ subscriptions' = subscriptions
        /\ \A u \in Users :
              balance'[u] # balance[u]
                  <=> \E r \in subscriptions' \ subscriptions : r.user_id = u
        /\ subscriptions \subseteq subscriptions'
        /\ Cardinality(subscriptions' \ subscriptions) <= 1 ]_vars

\* one purchase went through and another one failed at its insert, after
\* its debit: the one price is all that was taken
InsertFailedAfterDebit ==
    /\ \E h \in Handlers : reply[h] = "error: uq_xray_uuid"
    /\ \E r \in subscriptions :
          /\ subscriptions = {r}
          /\ balance[r.user_id] = balance0[r.user_id] - Price(r.tariff_id)
          /\ \A u \in Users \ {r.user_id} : balance[u] = balance0[u]

\* C4: findBestServer never returns a server whose count of 'active'
\* subscriptions, in the snapshot it read, is >= its max_users.
SelectedHasFreeSlot ==
    \A h \in Handlers : Selected(h) => snap[h][server[h]] < max_users[server[h]]

\* a selection made over a snapshot in which some server was full
SelectedBesideFullServer ==
    \E h \in Handlers, s \in Servers :
        Selected(h) /\ snap[h][s] >= max_users[s] /\ server[h] # s

\* C5: findBestServer never returns a server whose is_enabled is false, and
\* no subscription is on a disabled server.
OnlyEnabledServers ==
    /\ \A h \in Handlers : server[h] # NoServer => is_enabled[server[h]]
    /\ \A r \in subscriptions : is_enabled[r.server_id]

\* C6: when findBestServer returns nothing the purchase ends there, with
\* the "no servers" answer, no transaction, no debit and no subscription.
NoServerNoPurchase ==
    [][ \A h \in Handlers :
          (pc[h] = "findBestServer" /\ findBestServer(view_server_load) = {}
             /\ pc'[h] # pc[h])
          => /\ pc'[h] = "idle"
             /\ reply'[h] = "noservers"
             /\ tx'[h] = NoTx
             /\ balance' = balance
             /\ subscriptions' = subscriptions ]_vars

\* a purchase was answered "no servers" with every server full
AnsweredNoServers ==
    /\ \E h \in Handlers : reply[h] = "noservers"
    /\ \A s \in Servers : current_users(subscriptions, s) >= max_users[s]

\* C7: the server returned has the lowest exact ratio
\* current_users / max_users among the servers with free slots.
LowestExactRatio ==
    \A h \in Handlers :
        Selected(h) =>
            \A t \in Eligible(snap[h]) :
                snap[h][server[h]] * max_users[t] <= snap[h][t] * max_users[server[h]]

\* C8: among eligible servers of the same load ratio the one returned has
\* the lowest active count, and among those the lowest id.
DeterministicTieBreak ==
    \A h \in Handlers :
        Selected(h) =>
            \A t \in Eligible(snap[h]) :
                snap[h][server[h]] * max_users[t] = snap[h][t] * max_users[server[h]]
                    => \/ snap[h][server[h]] < snap[h][t]
                       \/ snap[h][server[h]] = snap[h][t] /\ server[h] <= t

\* C9: no two subscriptions share an xray_uuid; an insert goes through only
\* with an xray_uuid no row has, and one turned down for its xray_uuid
\* leaves balances and subscriptions as they were.
CredentialUnique ==
    [][ /\ \A r1, r2 \in subscriptions' : r1.xray_uuid = r2.xray_uuid => r1 = r2
        /\ \A h \in Handlers :
              /\ (pc[h] = "insert" /\ pc'[h] = "commit")
                    => \A r \in subscriptions : r.xray_uuid # tx'[h].row.xray_uuid
              /\ (pc[h] = "insert" /\ reply'[h] = "error: uq_xray_uuid")
                    => balance' = balance /\ subscriptions' = subscriptions ]_vars

\* every xray_uuid is taken and one more insert was turned down
CollisionRejected ==
    /\ \E h \in Handlers : reply[h] = "error: uq_xray_uuid"
    /\ Cardinality(subscriptions) >= 2

\* a subscription past its expire_date, which getActiveSub no longer
\* returns, still counted by view_server_load as 'active'
LapsedCounted ==
    \E r \in subscriptions :
        /\ r.expire_date < now
        /\ r \notin getActiveSub(r.user_id)
        /\ r.status = "active"
        /\ view_server_load[r.server_id] > 0

\* C10: a subscription whose expire_date has passed eventually stops
\* having status 'active' and stops counting toward its server's load.
LapsedStopsCounting == LapsedCounted ~> ~LapsedCounted

\* a full sweep of node s completes in this step and reports no failure
CleanSweepEnds(s) ==
    /\ sweep[s].pc = "apply"
    /\ sweep'[s].pc = "done"
    /\ sweep'[s].failed = {}

\* a credential of an active subscription of a node gets loaded on it
PurchasedReachesNode ==
    \A s \in Servers, x \in Uuids : (x \in Desired(s)) ~> (x \in node[s])

RECURSIVE PriceSum(_)
PriceSum(rows) ==
    IF rows = {}
      THEN 0
      ELSE LET r == CHOOSE q \in rows : TRUE
           IN  Price(r.tariff_id) + PriceSum(rows \ {r})

\* what the committed subscriptions of user u cost
Spent(u) == PriceSum({r \in subscriptions : r.user_id = u})

\* invocation h commits its createSubscription in this step
Commits(h) == pc[h] = "commit" /\ pc'[h] = "idle"

\* the commit of invocation h debits its buyer by the price of its tariff
\* and inserts one row, 'active', on the server createSubscription was given
CommitsOnePurchase(h) ==
    /\ reply'[h] = "success"
    /\ balance' = [balance EXCEPT ![ctx[h].user] = @ - Price(tariffId[h])]
    /\ \E r \in subscriptions' \ subscriptions :
           /\ subscriptions' = subscriptions \cup {r}
           /\ r.status = "active"
           /\ r.user_id = ctx[h].user
           /\ r.tariff_id = tariffId[h]
           /\ r.server_id = server[h]

\* balances and rows change in a commit only
OnlyCommitsChange ==
    (balance' # balance \/ subscriptions' # subscriptions) =>
        \E h \in Handlers : Commits(h)

\* C12: money is conserved by purchases: in every state, for each user, the
\* first balance minus the current one is the sum of the tariff prices of the
\* user's committed subscriptions; a createSubscription that succeeds debits
\* the buyer by the price of its tariff and no one else, and inserts one row,
\* 'active', of that buyer and tariff, on the server passed to it; balances
\* and rows change in no other step.
PurchasesConserveMoney ==
    /\ [](\A u \in Users : balance0[u] - balance[u] = Spent(u))
    /\ [][(\A h \in Handlers : Commits(h) => CommitsOnePurchase(h))
             /\ OnlyCommitsChange]_vars

\* a user holds two subscriptions and has paid the price of each
PaidForTwo ==
    \E u \in Users :
        /\ Cardinality({r \in subscriptions : r.user_id = u}) = 2
        /\ balance[u] < balance0[u]
        /\ balance0[u] - balance[u] = Spent(u)

====
